---- MODULE Spec2Model ----
(***************************************************************************)
(* WARN-notice pipeline of brpahari/Labar_Market_WARN.                     *)
(*                                                                         *)
(* Four collectors (scripts/scrape_{fl,tx,ca,ny}.py) turn a source table   *)
(* or a listing of PDF links into canonical records and hand them to       *)
(* common.upsert_append_csv, which appends them to the collector's         *)
(* data/<state>/<YEAR>.csv.  build_current_year.py rebuilds                *)
(* site/current_year.csv from the stores of the current year, and          *)
(* post_social.py diffs that file against site/history_snapshot.json and   *)
(* posts the new rows.                                                     *)
(*                                                                         *)
(* Files are modelled by their cells.  Strings are the program's strings;  *)
(* the pandas conversions the scripts rely on (NA parsing of read_csv,     *)
(* astype(str), to_numeric, to_datetime) are modelled on the values the    *)
(* model draws its inputs from.                                            *)
(***************************************************************************)
EXTENDS Naturals, Integers, Sequences, FiniteSets, TLC

VARIABLES
    year,       \* YEAR = datetime.utcnow().year of the scripts' runs
    store,      \* store[s]: the file data/<s>/<YEAR>.csv
    aggregate,  \* the file site/current_year.csv
    snapshot,   \* the file site/history_snapshot.json
    out,        \* what the last script run printed (its outcome)
    posted,     \* hash ids of the messages the last post_social run posted
    alerted,    \* hash ids posted by the post_social runs before the last one
    ident,      \* two make_hash_id calls: their arguments and their results
    rmw         \* upsert_append_csv calls between their read and their write,
                \* the hash ids handed to the calls that ended, and whether
                \* the calls on a store ran one after the other

vars == <<year, store, aggregate, snapshot, out, posted, alerted, ident, rmw>>

(***************************************************************************)
(* Bounds of the model.                                                    *)
(***************************************************************************)
MaxRows  == 2   \* rows of one source table / links of one listing
MaxStore == 2   \* rows a per-source store may grow to
MaxYear  == 2   \* calendar years the runs span
MaxNew   == 4   \* rows of site/current_year.csv when post_social runs alone

Sources == {"ca", "fl", "ny", "tx"}

(***************************************************************************)
(* Sequence helpers.                                                       *)
(***************************************************************************)
Range(s) == {s[i] : i \in 1..Len(s)}

SeqsUpTo(S, n) == UNION {[1..k -> S] : k \in 0..n}

RECURSIVE Filter(_, _)
\* the rows of seq whose index is in keep, in order (boolean-mask selection)
Filter(seq, keep) ==
    IF seq = <<>> THEN <<>>
    ELSE LET n == Len(seq)
             front == Filter(SubSeq(seq, 1, n - 1), keep)
         IN IF n \in keep THEN Append(front, seq[n]) ELSE front

(***************************************************************************)
(* Cells.  NaN is pandas' missing value (a blank spreadsheet cell, a       *)
(* table row shorter than its header).                                     *)
(***************************************************************************)
NaN == "<NaN>"

\* str(x) / Series.astype(str): a missing value becomes the text "nan"
AsStr(x) == IF x = NaN THEN "nan" ELSE x

\* Series.fillna("")
FillNa(x) == IF x = NaN THEN "" ELSE x

\* the texts pandas.read_csv parses as missing (keep_default_na), dtype=str
\* or not
NaValues == {"", "#N/A", "#N/A N/A", "#NA", "-1.#IND", "-1.#QNAN", "-NaN",
             "-nan", "1.#IND", "1.#QNAN", "<NA>", "N/A", "NA", "NULL", "NaN",
             "None", "n/a", "nan", "null"}

\* one cell through pd.read_csv(path, dtype=str).fillna("")
ReadCell(x) == IF x \in NaValues THEN "" ELSE x

(***************************************************************************)
(* common.py                                                               *)
(***************************************************************************)
\* norm_text on the company names of the model: lower-case, punctuation to
\* blanks, blanks collapsed, stripped
norm_text(s) ==
    CASE s = "Acme Inc." -> "acme inc"
      [] s = "Bolt"      -> "bolt"
      [] s = "bolt warn" -> "bolt warn"
      [] s = "nan"       -> "nan"
      [] OTHER           -> ""

\* site/mappings.json, the curated alias table
Mappings == [k \in {"acme inc"} |-> "Acme"]

apply_clean_name(company, mappings) ==
    LET key == norm_text(company)
    IN IF key \in DOMAIN mappings THEN mappings[key] ELSE company

\* hashlib.md5(...).hexdigest(), modelled as a collision-free digest: the
\* digest of a text is the tagged text
Md5(raw) == "md5:" \o raw

\* make_hash_id that leaves the source_url out of the digest
make_hash_id_without_url(company, notice_date, effective_date, city, source_url) ==
    Md5(company \o "|" \o notice_date \o "|" \o effective_date \o "|" \o city)

make_hash_id(company, notice_date, effective_date, city, source_url) ==
    Md5(company \o "|" \o notice_date \o "|" \o effective_date \o "|"
        \o city \o "|" \o source_url)

\* a canonical row (the nine columns every collector writes)
Row(company, notice_date, effective_date, employee_count, city, state, url) ==
    [hash_id        |-> make_hash_id(company, notice_date, effective_date, city, url),
     company        |-> company,
     clean_name     |-> apply_clean_name(company, Mappings),
     notice_date    |-> notice_date,
     effective_date |-> effective_date,
     employee_count |-> employee_count,
     city           |-> city,
     state          |-> state,
     source_url     |-> url]

\* A file is absent, a zero-byte file ("empty": pd.read_csv raises
\* EmptyDataError), or a CSV of rows under the nine-column header.
NoFile == [kind |-> "absent", rows |-> <<>>]
EmptyFile == [kind |-> "empty", rows |-> <<>>]

\* DataFrame.to_csv(path, index=False): every cell written as its text
to_csv(df) == [kind |-> "csv", rows |-> df]

\* pd.read_csv(path, dtype=str).fillna("") of a CSV file
read_csv_str(file) ==
    [i \in 1..Len(file.rows) |->
        [c \in DOMAIN file.rows[i] |-> ReadCell(file.rows[i][c])]]

HashIds(df) == {df[i].hash_id : i \in 1..Len(df)}

\* upsert_append_csv without the isin filter: every row of the batch is
\* appended
upsert_without_filter(file, df_new) ==
    IF file.kind = "absent"
    THEN [file |-> to_csv(df_new), ret |-> Len(df_new), exc |-> ""]
    ELSE IF file.kind = "empty"
    THEN [file |-> file, ret |-> 0, exc |-> "EmptyDataError"]
    ELSE IF df_new = <<>>
    THEN [file |-> file, ret |-> 0, exc |-> ""]
    ELSE [file |-> to_csv(read_csv_str(file) \o df_new), ret |-> Len(df_new), exc |-> ""]

\* upsert_append_csv that writes the new rows alone, without df_old
upsert_overwrite(file, df_new) ==
    IF file.kind = "absent"
    THEN [file |-> to_csv(df_new), ret |-> Len(df_new), exc |-> ""]
    ELSE IF file.kind = "empty"
    THEN [file |-> file, ret |-> 0, exc |-> "EmptyDataError"]
    ELSE LET old_ids == HashIds(read_csv_str(file))
             fresh   == Filter(df_new,
                           {i \in 1..Len(df_new) : df_new[i].hash_id \notin old_ids})
         IN IF fresh = <<>>
            THEN [file |-> file, ret |-> 0, exc |-> ""]
            ELSE [file |-> to_csv(fresh), ret |-> Len(fresh), exc |-> ""]

\* upsert_append_csv(path, df_new): the file it leaves, the count it
\* returns, and the exception that escapes it ("" when it returns)
upsert_append_csv(file, df_new) ==
    IF file.kind = "absent"
    THEN \* except FileNotFoundError
         [file |-> to_csv(df_new), ret |-> Len(df_new), exc |-> ""]
    ELSE IF file.kind = "empty"
    THEN \* EmptyDataError is not a FileNotFoundError: it propagates
         [file |-> file, ret |-> 0, exc |-> "EmptyDataError"]
    ELSE LET df_old  == read_csv_str(file)
             old_ids == HashIds(df_old)
             fresh   == Filter(df_new,
                           {i \in 1..Len(df_new) : df_new[i].hash_id \notin old_ids})
         IN IF fresh = <<>>
            THEN [file |-> file, ret |-> 0, exc |-> ""]
            ELSE [file |-> to_csv(df_old \o fresh), ret |-> Len(fresh), exc |-> ""]

(***************************************************************************)
(* What the collectors read.                                               *)
(*                                                                         *)
(* A source table (FL's HTML table, TX's sheet, CA's sheet) is its header, *)
(* given as the set of canonical fields for which the collector's column   *)
(* search (find_col / get_col) returns a column, and its data rows.  A     *)
(* data row holds the cells of the company, notice-date and count columns; *)
(* its city cell is CityCell and its effective-date cell EffectiveCell.    *)
(***************************************************************************)
Fields == {"company", "city", "notice", "effective", "count"}

\* headers in which every field resolves, or all but one
ColSets == {Fields} \cup {Fields \ {f} : f \in Fields}

CityCell == "Albany"
EffectiveCell == "04/30/2025"

SrcRows ==
    { [company |-> "Acme Inc.", notice |-> "03/01/2025", count |-> "150"],
      [company |-> "Acme Inc.", notice |-> "03/01/2025", count |-> "1,200"],
      [company |-> "",          notice |-> "03/01/2025", count |-> "150"],
      [company |-> NaN,         notice |-> "03/01/2025", count |-> "150"],
      [company |-> "Bolt",      notice |-> "TBD",        count |-> NaN] }

\* the row the tables with an incomplete header carry
PlainRow == [company |-> "Acme Inc.", notice |-> "03/01/2025", count |-> "150"]

\* tables with a complete header and any rows, and tables whose header
\* lacks one field
Tables ==
    [cols : {Fields}, rows : SeqsUpTo(SrcRows, MaxRows)]
    \cup [cols : ColSets \ {Fields}, rows : SeqsUpTo({PlainRow}, MaxRows)]

\* pd.to_datetime(x, errors="coerce").strftime("%Y-%m-%d"), "" when the
\* value does not parse (NaT.strftime raises, the except returns "")
to_iso_date(x) ==
    CASE x = "03/01/2025"    -> "2025-03-01"
      [] x = "04/30/2025"    -> "2025-04-30"
      [] x = "2025-03-01"    -> "2025-03-01"
      [] x = "2025-04-30"    -> "2025-04-30"
      [] OTHER               -> ""

\* scrape_ca.parse_date: the same dates, "" for a blank or unparseable cell
parse_date(val) == IF val = NaN \/ val = "" THEN "" ELSE to_iso_date(val)

\* pd.to_numeric(col, errors="coerce").fillna(0).astype(int).astype(str)
NumericStr(x) ==
    CASE x = "150" -> "150"
      [] x = "7"   -> "7"
      [] OTHER     -> "0"

\* scrape_ca: str(int(re.sub(r"[^0-9]", "", emp_raw))) or "0" without digits
DigitsStr(x) ==
    CASE x = "150"   -> "150"
      [] x = "1,200" -> "1200"
      [] x = "7"     -> "7"
      [] x = "0"     -> "0"
      [] OTHER       -> "0"

\* str.title() on the city texts of the model
Title(x) == IF x = "nan" THEN "Nan" ELSE x

\* str.strip() (no text of the model has outer blanks)
Strip(x) == x

(***************************************************************************)
(* scrape_fl.py                                                            *)
(***************************************************************************)
FLUrl(yr) == "https://reactwarn.floridajobs.org/NoticeList.aspx?year=" \o ToString(yr)

FLRow(cols, r, yr) ==
    Row(AsStr(r.company),
        IF "notice" \in cols THEN to_iso_date(r.notice) ELSE "",
        IF "effective" \in cols THEN to_iso_date(EffectiveCell) ELSE "",
        IF "count" \in cols THEN NumericStr(r.count) ELSE "0",
        IF "city" \in cols THEN Title(AsStr(CityCell)) ELSE "",
        "FL", FLUrl(yr))

\* main() up to the upsert: the batch it hands over, or an early return
FLCollect(t, yr) ==
    IF t.rows = <<>> THEN {[res |-> "abort", batch |-> <<>>]}        \* "FL no data rows"
    ELSE IF "company" \notin t.cols
    THEN {[res |-> "abort", batch |-> <<>>]}                         \* "FL company column not found"
    ELSE {[res |-> "batch",
           batch |-> [i \in 1..Len(t.rows) |-> FLRow(t.cols, t.rows[i], yr)]]}

(***************************************************************************)
(* scrape_tx.py                                                            *)
(***************************************************************************)
\* the sheet link pick_sheet_link finds on the TWC page
SheetUrl == "https://dol.ny.gov/system/files/documents/warn/acme.xlsx"

\* a sheet cell after pd.read_csv(dtype=str).fillna("") / read_excel().fillna("")
TXCell(x) == ReadCell(FillNa(x))

TXRow(cols, r, data_url) ==
    Row(AsStr(TXCell(r.company)),
        IF "notice" \in cols THEN to_iso_date(TXCell(r.notice)) ELSE "",
        IF "effective" \in cols THEN to_iso_date(TXCell(EffectiveCell)) ELSE "",
        IF "count" \in cols THEN NumericStr(TXCell(r.count)) ELSE "0",
        Title(AsStr(TXCell(CityCell))),
        "TX", data_url)

\* main() up to the upsert.  On a sheet without data rows out.apply(...,
\* axis=1) returns an empty frame: assigning it to out["hash_id"] raises
\* ValueError or yields an empty column, depending on the pandas version.
TXCollect(t, data_url) ==
    IF "company" \notin t.cols \/ "city" \notin t.cols
    THEN {[res |-> "abort", batch |-> <<>>]}                         \* "TX required columns not found"
    ELSE IF t.rows = <<>>
    THEN {[res |-> "crashed", batch |-> <<>>], [res |-> "batch", batch |-> <<>>]}
    ELSE {[res |-> "batch",
           batch |-> [i \in 1..Len(t.rows) |-> TXRow(t.cols, t.rows[i], data_url)]]}

(***************************************************************************)
(* scrape_ca.py                                                            *)
(***************************************************************************)
CAUrl == "https://edd.ca.gov/siteassets/files/jobs_and_training/warn/warn_report.xlsx"

\* the company texts main() takes for repeated headers and banners
CAJunk(company) == company = "" \/ company = "Company Name" \/ company = "Report as of"

CARow(cols, r) ==
    Row(Strip(AsStr(r.company)),
        parse_date(r.notice),
        IF "effective" \in cols THEN parse_date(EffectiveCell) ELSE "",
        IF "count" \in cols THEN DigitsStr(AsStr(r.count)) ELSE DigitsStr("0"),
        IF "city" \in cols THEN Strip(AsStr(CityCell)) ELSE "",
        "CA", CAUrl)

\* main() up to the upsert
CACollect(t) ==
    IF "company" \notin t.cols \/ "notice" \notin t.cols
    THEN {[res |-> "abort", batch |-> <<>>]}     \* "could not map 'Company' or 'Notice Date'"
    ELSE LET keep == {i \in 1..Len(t.rows) :
                        /\ ~CAJunk(Strip(AsStr(t.rows[i].company)))
                        /\ parse_date(t.rows[i].notice) # ""}
             rows == Filter([i \in 1..Len(t.rows) |-> CARow(t.cols, t.rows[i])], keep)
         IN IF rows = <<>>
            THEN {[res |-> "abort", batch |-> <<>>]}                 \* "0 rows extracted"
            ELSE {[res |-> "batch", batch |-> rows]}

(***************************************************************************)
(* scrape_ny.py                                                            *)
(*                                                                         *)
(* A link of the listing page: its url and anchor title, whether the PDF   *)
(* could be fetched, and the dict extract_pdf_fields returns for it (all   *)
(* fields empty, the count 0, when nothing in the PDF matches).            *)
(***************************************************************************)
PdfUrl == "https://dol.ny.gov/system/files/documents/2025/03/bolt-warn.pdf"

NYLinks ==
    { [url |-> SheetUrl, title |-> "Acme Inc.", fetched |-> TRUE,
       company |-> "Acme Inc.", notice_date |-> "2025-03-01",
       effective_date |-> "2025-04-30", employee_count |-> 150, city |-> "Albany"],
      [url |-> SheetUrl, title |-> "Acme Inc.", fetched |-> TRUE,
       company |-> "", notice_date |-> "", effective_date |-> "",
       employee_count |-> 0, city |-> ""],
      [url |-> PdfUrl, title |-> "", fetched |-> TRUE,
       company |-> "", notice_date |-> "", effective_date |-> "",
       employee_count |-> 0, city |-> ""],
      [url |-> PdfUrl, title |-> "Bolt", fetched |-> FALSE,
       company |-> "", notice_date |-> "", effective_date |-> "",
       employee_count |-> 0, city |-> ""] }

Listings == SeqsUpTo(NYLinks, MaxRows)

\* extract_pdf_links: the links in page order, the first one of each url
extract_pdf_links(links) ==
    Filter(links, {i \in 1..Len(links) : \A j \in 1..(i - 1) : links[j].url # links[i].url})

\* the file name of the url's path without ".pdf", "-" and "_" as blanks
FileStem(url) ==
    CASE url = PdfUrl   -> "bolt warn"
      [] url = SheetUrl -> "acme.xlsx"
      [] OTHER          -> ""

\* str(int(employee_count) if employee_count else 0)
CountStr(n) ==
    CASE n = 150 -> "150"
      [] n = 7   -> "7"
      [] OTHER   -> "0"

\* the source_url column of the store, when the file exists and reads
seen_urls(file) ==
    IF file.kind = "csv"
    THEN {Strip(read_csv_str(file)[i].source_url) : i \in 1..Len(file.rows)}
    ELSE {}

NYCompany(l) ==
    IF Strip(l.company) # "" THEN Strip(l.company)
    ELSE IF Strip(l.title) # "" THEN Strip(l.title)
    ELSE FileStem(l.url)

NYRow(l) ==
    Row(NYCompany(l), l.notice_date, l.effective_date, CountStr(l.employee_count),
        l.city, "NY", l.url)

\* main() up to the upsert
NYCollect(listing, file) ==
    LET links == extract_pdf_links(listing)
        keep  == {i \in 1..Len(links) :
                     links[i].url \notin seen_urls(file) /\ links[i].fetched}
        rows  == Filter([i \in 1..Len(links) |-> NYRow(links[i])], keep)
    IN IF links = <<>> THEN {[res |-> "abort", batch |-> <<>>]}      \* "NY no pdf links on page"
       ELSE IF rows = <<>> THEN {[res |-> "abort", batch |-> <<>>]}  \* "NY no new rows to write"
       ELSE {[res |-> "batch", batch |-> rows]}

(***************************************************************************)
(* One run of a collector script.                                          *)
(***************************************************************************)
\* what collector s, reading input x in year yr with its store being file,
\* hands to the upsert
Collect(s, x, file, yr) ==
    CASE s = "fl" -> FLCollect(x, yr)
      [] s = "tx" -> TXCollect(x, SheetUrl)
      [] s = "ca" -> CACollect(x)
      [] s = "ny" -> NYCollect(x, file)

Inputs(s) == IF s = "ny" THEN Listings ELSE Tables

\* the outcomes of the script's main(): the store file it leaves, how it
\* ended (res) and the count it printed (n)
Run(s, x, file, yr) ==
    { IF c.res = "batch"
      THEN LET u == upsert_append_csv(file, c.batch)
           IN IF u.exc # ""
              THEN [file |-> u.file, res |-> "raised", n |-> 0]
              ELSE [file |-> u.file, res |-> "added", n |-> u.ret]
      ELSE [file |-> file, res |-> c.res, n |-> 0]
      : c \in Collect(s, x, file, yr) }

Ingest(s, x) ==
    \E r \in Run(s, x, store[s], year) :
        /\ Len(r.file.rows) <= MaxStore
        /\ store' = [store EXCEPT ![s] = r.file]
        /\ out' = [op |-> s, res |-> r.res, n |-> r.n]
        /\ UNCHANGED <<year, aggregate, snapshot, posted, alerted, ident, rmw>>

\* A run killed inside df.to_csv(path) after the file was opened for
\* writing leaves a zero-byte store.
Truncate(s) ==
    /\ store[s].kind = "csv"
    /\ store' = [store EXCEPT ![s] = EmptyFile]
    /\ out' = [op |-> s, res |-> "killed", n |-> 0]
    /\ UNCHANGED <<year, aggregate, snapshot, posted, alerted, ident, rmw>>

(***************************************************************************)
(* The collectors alone.  They share no file, so each behaviour follows    *)
(* the runs of one collector on its store.                                 *)
(***************************************************************************)
\* no make_hash_id call is being followed
NoCalls == [a |-> <<>>, b |-> <<>>, ha |-> "", hb |-> "", done |-> TRUE]

\* the files before the first run
NoFiles ==
    /\ year = 1
    /\ store = [s \in Sources |-> NoFile]
    /\ aggregate = NoFile
    /\ snapshot = [kind |-> "absent", ids |-> {}]
    /\ out = [op |-> "", res |-> "", n |-> 0]
    /\ posted = <<>>
    /\ alerted = {}

\* no upsert_append_csv call is under way, none has ended
Idle == [pc |-> "idle"]

Procs == {"p", "q"}

NoRuns ==
    [run       |-> [p \in Procs |-> Idle],
     submitted |-> [s \in Sources |-> {}],
     serial    |-> [s \in Sources |-> TRUE]]

Init == NoFiles /\ ident = NoCalls /\ rmw = NoRuns

Alone(s) == \A t \in Sources \ {s} : store[t].kind = "absent"

RunCollector == \E s \in Sources : Alone(s) /\ \E x \in Inputs(s) : Ingest(s, x)

StoreKilled == \E s \in Sources : Alone(s) /\ Truncate(s)

NextIngest == RunCollector \/ StoreKilled

SpecIngest == Init /\ [][NextIngest]_vars

(***************************************************************************)
(* build_current_year.py                                                   *)
(***************************************************************************)
\* the orders in which a sequence can be arranged
Orders(seq) ==
    {[i \in 1..Len(seq) |-> seq[p[i]]] :
        p \in {q \in [1..Len(seq) -> 1..Len(seq)] :
                 \A i, j \in 1..Len(seq) : q[i] = q[j] => i = j}}

\* the employee_count cell after pd.to_numeric(..., errors="coerce")
\* .fillna(0).astype(int), as to_csv writes it
CountCell(x) == IF x \in {"7", "150", "1200"} THEN x ELSE "0"

\* normalize_df on the frame pd.read_csv(path) gives: the nine columns,
\* missing cells as "", texts stripped, rows without a company dropped
normalize_df(file) ==
    LET df == [i \in 1..Len(file.rows) |->
                 [c \in DOMAIN file.rows[i] |->
                    IF c = "employee_count"
                    THEN CountCell(ReadCell(file.rows[i][c]))
                    ELSE Strip(ReadCell(file.rows[i][c]))]]
    IN Filter(df, {i \in 1..Len(df) : df[i].company # ""})

\* main() without its drop_duplicates
keep_duplicates(df) == df

\* drop_duplicates(subset=["hash_id"], keep="last")
drop_duplicates_last(df) ==
    Filter(df, {i \in 1..Len(df) :
                  \A j \in (i + 1)..Len(df) : df[j].hash_id # df[i].hash_id})

\* pd.to_datetime(notice_date, errors="coerce") as a sort key, 0 for NaT
DateKey(d) ==
    CASE d = "2025-03-01" -> 20250301
      [] d = "2025-04-30" -> 20250430
      [] OTHER            -> 0

\* sort_values(by=["_nd"], ascending=False): dated rows newest first, rows
\* of equal date in an order the default quicksort does not fix, then the
\* rows without a date in their order
sort_newest_first(df) ==
    LET dated == Filter(df, {i \in 1..Len(df) : DateKey(df[i].notice_date) # 0})
        blank == Filter(df, {i \in 1..Len(df) : DateKey(df[i].notice_date) = 0})
    IN {o \o blank :
          o \in {q \in Orders(dated) :
                   \A i \in 1..(Len(q) - 1) :
                      DateKey(q[i].notice_date) >= DateKey(q[i + 1].notice_date)}}

RECURSIVE Concat(_)
\* pd.concat(parts, ignore_index=True)
Concat(parts) == IF parts = <<>> THEN <<>> ELSE Head(parts) \o Concat(Tail(parts))

\* the stores main() takes parts from: read_state_year_csv returns None on
\* a file that does not parse; main() skips it, and a frame without rows
used_stores(st) ==
    LET found == {s \in Sources : st[s].kind # "absent"}
    IN {s \in found : st[s].kind = "csv" /\ st[s].rows # <<>>}

\* the frames pd.concat(parts) can give for the stores st, one per order in
\* which glob.glob("data/*/<YEAR>.csv") may list them
concat_parts(st) ==
    LET used  == used_stores(st)
        paths == Orders(CHOOSE q \in [1..Cardinality(used) -> used] :
                           \A i, j \in 1..Cardinality(used) : q[i] = q[j] => i = j)
    IN {Concat([i \in 1..Len(path) |-> normalize_df(st[path[i]])]) : path \in paths}

\* the files main() can write for the stores st
build_current_year(st) ==
    IF used_stores(st) = {}
    THEN {to_csv(<<>>)}                                               \* write_empty()
    ELSE UNION {
           {to_csv(sorted) : sorted \in sort_newest_first(drop_duplicates_last(merged))}
           : merged \in concat_parts(st)}

Build ==
    /\ \E f \in build_current_year(store) : aggregate' = f
    /\ out' = [op |-> "build", res |-> "built", n |-> Len(aggregate'.rows)]
    /\ UNCHANGED <<year, store, snapshot, posted, alerted, ident, rmw>>

(***************************************************************************)
(* post_social.py                                                          *)
(***************************************************************************)
\* rows posted per run: new_rows.head(3)
TopK == 3

\* load_previous_hashes(): the ids of the snapshot, none when it is absent
load_previous_hashes(snap) == IF snap.kind = "json" THEN snap.ids ELSE {}

\* save_current_hashes(hashes)
save_current_hashes(hashes) == [kind |-> "json", ids |-> hashes]

\* to_int(x) on the employee_count cells
to_int(x) ==
    CASE x = "7"    -> 7
      [] x = "150"  -> 150
      [] x = "1200" -> 1200
      [] OTHER      -> 0

Min(a, b) == IF a <= b THEN a ELSE b

\* main() without its sort_values: the first rows of new_rows are posted
post_social_unranked(agg, snap) ==
    IF agg.kind = "absent"
    THEN {[snapshot |-> snap, posted |-> <<>>, res |-> "nofile"]}
    ELSE LET df       == read_csv_str(agg)
             new_ids  == HashIds(df) \ load_previous_hashes(snap)
             new_rows == Filter(df, {i \in 1..Len(df) : df[i].hash_id \in new_ids})
         IN IF new_ids = {}
            THEN {[snapshot |-> snap, posted |-> <<>>, res |-> "nonew"]}
            ELSE {[snapshot |-> save_current_hashes(HashIds(df)),
                   posted   |-> SubSeq(new_rows, 1, Min(TopK, Len(new_rows))),
                   res      |-> "posted"]}

\* the outcomes of main(): the snapshot it leaves and the rows it posts, in
\* order.  Rows of equal employee_count are ordered as the default
\* quicksort of sort_values leaves them.
post_social(agg, snap) ==
    IF agg.kind = "absent"
    THEN {[snapshot |-> snap, posted |-> <<>>, res |-> "nofile"]}      \* "No data file found."
    ELSE LET df       == read_csv_str(agg)
             previous == load_previous_hashes(snap)
             current  == HashIds(df)
             new_ids  == current \ previous
             new_rows == Filter(df, {i \in 1..Len(df) : df[i].hash_id \in new_ids})
             ranked   == {q \in Orders(new_rows) :
                            \A i \in 1..(Len(q) - 1) :
                               to_int(q[i].employee_count) >= to_int(q[i + 1].employee_count)}
         IN IF new_ids = {}
            THEN {[snapshot |-> snap, posted |-> <<>>, res |-> "nonew"]}  \* "No new notices to post."
            ELSE {[snapshot |-> save_current_hashes(current),
                   posted   |-> SubSeq(q, 1, Min(TopK, Len(q))),
                   res      |-> "posted"] : q \in ranked}

Post ==
    \E o \in post_social(aggregate, snapshot) :
        /\ snapshot' = o.snapshot
        /\ posted' = o.posted
        /\ alerted' = alerted \cup HashIds(posted)
        /\ out' = [op |-> "post", res |-> o.res, n |-> Len(o.posted)]
        /\ UNCHANGED <<year, store, aggregate, ident, rmw>>

(***************************************************************************)
(* The pipeline: collector runs, builds and posts in any order, over more  *)
(* than one calendar year.                                                 *)
(***************************************************************************)
\* The year turns: the scripts now read and write data/<s>/<YEAR>.csv of
\* the new year, which do not exist yet.
NewYear ==
    /\ year < MaxYear
    /\ year' = year + 1
    /\ store' = [s \in Sources |-> NoFile]
    /\ out' = [op |-> "clock", res |-> "newyear", n |-> 0]
    /\ UNCHANGED <<aggregate, snapshot, posted, alerted, ident, rmw>>

OneRow(r) == [cols |-> Fields, rows |-> <<r>>]

\* What the collectors read in the pipeline: the TX sheet and the NY
\* listing, which can name the same document.  The stores of the other
\* collectors stay absent; the build and the post read every store alike.
Feeds(s) ==
    CASE s = "tx" -> {OneRow([company |-> "Acme Inc.", notice |-> "03/01/2025", count |-> "150"]),
                      OneRow([company |-> "", notice |-> "03/01/2025", count |-> "150"])}
      [] s = "ny" -> {<<l>> : l \in {k \in NYLinks : k.url = PdfUrl \/ k.notice_date # ""}}
      [] OTHER    -> {}

Scrape == \E s \in Sources : \E x \in Feeds(s) : Ingest(s, x)

Next == Scrape \/ Build \/ Post \/ NewYear

Spec == Init /\ [][Next]_vars

(***************************************************************************)
(* The collectors and the build, without the posts.  The FL table holds    *)
(* notices of one day and of two days, and one notice listed twice with    *)
(* different counts; the TX sheet is that of the pipeline.                 *)
(***************************************************************************)
BuildRows ==
    { [company |-> "Acme Inc.", notice |-> "03/01/2025", count |-> "150"],
      [company |-> "Acme Inc.", notice |-> "03/01/2025", count |-> "7"],
      [company |-> "Bolt",      notice |-> "03/01/2025", count |-> "7"],
      [company |-> "Bolt",      notice |-> "04/30/2025", count |-> "7"] }

BuildFeeds(s) ==
    IF s = "fl"
    THEN [cols : {Fields}, rows : SeqsUpTo(BuildRows, MaxRows) \ {<<>>}]
    ELSE IF s = "tx" THEN Feeds(s)
    ELSE {}

Gather == \E s \in Sources : \E x \in BuildFeeds(s) : Ingest(s, x)

NextBuild == Gather \/ Build

SpecBuild == Init /\ [][NextBuild]_vars

(***************************************************************************)
(* Collector runs that overlap.  upsert_append_csv reads the store         *)
(* (pd.read_csv, or FileNotFoundError) and later writes the whole file     *)
(* (to_csv) from what it read; nothing locks the file in between, so the   *)
(* read and the write are two steps and another run can write between      *)
(* them.                                                                   *)
(***************************************************************************)
RaceRows ==
    { [company |-> "Acme Inc.", notice |-> "03/01/2025", count |-> "150"],
      [company |-> "Bolt",      notice |-> "04/30/2025", count |-> "7"] }

RaceFeeds(s) == IF s \in {"ca", "fl"} THEN {OneRow(r) : r \in RaceRows} ELSE {}

\* run p of collector s gets to the read of its upsert
ReadStore(p, s, x) ==
    /\ rmw.run[p] = Idle
    /\ \E c \in Collect(s, x, store[s], year) :
          /\ c.res = "batch"
          /\ rmw' = [rmw EXCEPT !.run[p] =
                        [pc |-> "read", s |-> s, batch |-> c.batch,
                         old |-> store[s], stale |-> FALSE]]
    /\ UNCHANGED <<year, store, aggregate, snapshot, out, posted, alerted, ident>>

\* run p writes: the file is what upsert_append_csv makes of the store as
\* p read it; nothing is written when no row of the batch is new
WriteStore(p) ==
    LET r     == rmw.run[p]
        u     == upsert_append_csv(r.old, r.batch)
        wrote == u.exc = "" /\ u.file # r.old
    IN /\ r # Idle
       /\ Len(u.file.rows) <= MaxStore
       /\ store' = IF wrote THEN [store EXCEPT ![r.s] = u.file] ELSE store
       /\ rmw' = [run |-> [q \in Procs |->
                             IF q = p THEN Idle
                             ELSE IF rmw.run[q] # Idle /\ rmw.run[q].s = r.s /\ wrote
                             THEN [rmw.run[q] EXCEPT !.stale = TRUE]
                             ELSE rmw.run[q]],
                   submitted |-> [rmw.submitted EXCEPT ![r.s] = @ \cup HashIds(r.batch)],
                   serial    |-> [rmw.serial EXCEPT ![r.s] = @ /\ ~r.stale]]
       /\ out' = [op |-> r.s, res |-> IF u.exc = "" THEN "added" ELSE "raised", n |-> u.ret]
       /\ UNCHANGED <<year, aggregate, snapshot, posted, alerted, ident>>

Reads == \E p \in Procs : \E s \in Sources : \E x \in RaceFeeds(s) : ReadStore(p, s, x)

Writes == \E p \in Procs : WriteStore(p)

NextRace == Reads \/ Writes

SpecRace == Init /\ [][NextRace]_vars

\* C13: as long as the upserts on a store ran one after the other, the
\* store holds every hash id of every batch handed to them.
NoLostRecords ==
    \A s \in Sources :
        rmw.serial[s] => rmw.submitted[s] \subseteq HashIds(read_csv_str(store[s]))

\* two runs on one store, one after the other, have each added a row, and
\* the last one ended while a run on another store was between its read and
\* its write
NoLostRecordsWitness ==
    \E s \in Sources :
        /\ rmw.serial[s] /\ Cardinality(rmw.submitted[s]) >= 2
        /\ out.op = s /\ out.res = "added" /\ out.n = 1
        /\ Len(store[s].rows) >= 2
        /\ \E q \in Procs : rmw.run[q] # Idle /\ rmw.run[q].s # s

\* a run wrote the store from a read that another run's write had
\* outdated, and a row of that other run is gone
LostUpdate ==
    \E s \in Sources :
        ~rmw.serial[s] /\ ~(rmw.submitted[s] \subseteq HashIds(read_csv_str(store[s])))

(***************************************************************************)
(* make_hash_id on its own: two calls whose arguments are equal or differ  *)
(* in one of the five fields.  The field texts include the delimiter.      *)
(***************************************************************************)
IdTexts == {"", "|", "Acme Inc."}

IdTuples == [{"company", "notice_date", "effective_date", "city", "source_url"} -> IdTexts]

\* make_hash_id applied to a five-tuple
HashOf(t) == make_hash_id(t.company, t.notice_date, t.effective_date, t.city, t.source_url)

InitIdentity ==
    /\ NoFiles
    /\ rmw = NoRuns
    /\ \E t \in IdTuples : \E k \in DOMAIN t : \E v \in IdTexts :
          ident = [a |-> t, b |-> [t EXCEPT ![k] = v], ha |-> "", hb |-> "", done |-> FALSE]

\* both calls are made
Identify ==
    /\ ~ident.done
    /\ ident' = [ident EXCEPT !.ha = HashOf(ident.a), !.hb = HashOf(ident.b), !.done = TRUE]
    /\ UNCHANGED <<year, store, aggregate, snapshot, out, posted, alerted, rmw>>

SpecIdentity == InitIdentity /\ [][Identify]_vars

\* the fields in which two five-tuples differ
DiffFields(a, b) == {k \in DOMAIN a : a[k] # b[k]}

Batches(s) ==
    {c.batch : c \in {d \in UNION {Collect(s, x, f, year) :
                                      x \in Inputs(s), f \in {NoFile, store[s]}} :
                        d.res = "batch"}}

IsPrefix(a, b) == Len(a) <= Len(b) /\ SubSeq(b, 1, Len(a)) = a

\* C1: upserting a batch again into the store its upsert left changes
\* nothing and returns 0, whatever the store and the batch.
UpsertIdempotent ==
    \A s \in Sources : \A b \in Batches(s) :
        LET u1 == upsert_append_csv(store[s], b)
            u2 == upsert_append_csv(u1.file, b)
        IN u1.exc = "" => u2.exc = "" /\ u2.file = u1.file /\ u2.ret = 0

\* a run has just appended rows to a store that held rows already, and its
\* batch upserted again adds nothing
UpsertIdempotentWitness ==
    \E s \in Sources :
        /\ out.op = s /\ out.res = "added" /\ out.n >= 1
        /\ store[s].kind = "csv" /\ Len(store[s].rows) > out.n
        /\ \E b \in Batches(s) :
              /\ Len(b) >= out.n
              /\ HashIds(b) \subseteq HashIds(store[s].rows)
              /\ upsert_append_csv(store[s], b).ret = 0

\* C2: no hash id occurs in two rows of a store.
StoreIdsUnique ==
    \A s \in Sources : \A i, j \in 1..Len(store[s].rows) :
        store[s].rows[i].hash_id = store[s].rows[j].hash_id => i = j

\* C3: an upsert leaves every stored row in place with all its cells, also
\* when the batch carries the same hash id with other cells.
FirstSeenWins ==
    \A s \in Sources : \A b \in Batches(s) :
        LET u == upsert_append_csv(store[s], b)
        IN store[s].kind = "csv" /\ u.exc = "" => IsPrefix(store[s].rows, u.file.rows)

\* C8: on an absent or unreadable store the upsert writes the batch as a
\* fresh store and returns its length; it does not raise.
RecoversStore ==
    \A s \in Sources : \A b \in Batches(s) :
        store[s].kind \in {"absent", "empty"} =>
            upsert_append_csv(store[s], b) =
                [file |-> to_csv(b), ret |-> Len(b), exc |-> ""]

\* C9: a run on a table whose header lacks the company or the notice-date
\* column aborts and leaves the store as it was, and the lack of any other
\* column aborts no run that the complete header lets through.
KeyColumnsAbort ==
    [][\A s \in {"ca", "fl", "tx"} : \A t \in Tables :
          Ingest(s, t) =>
             IF "company" \notin t.cols \/ "notice" \notin t.cols
             THEN out'.res = "abort" /\ store' = store
             ELSE (\A r \in Run(s, [t EXCEPT !.cols = Fields], store[s], year) :
                      r.res # "abort") => out'.res # "abort"]_vars

\* C10: no stored row has an empty company.
CompanyNonEmpty ==
    \A s \in Sources : \A i \in 1..Len(store[s].rows) :
        store[s].rows[i].company # ""

(***************************************************************************)
(* Claims about the aggregate and the change detection.                    *)
(***************************************************************************)
\* C4: after a post_social run that read site/current_year.csv the snapshot
\* holds exactly the hash ids of that file, whether or not a row was new.
SnapshotIsCurrent ==
    out.op = "post" /\ out.res # "nofile" =>
        load_previous_hashes(snapshot) = HashIds(read_csv_str(aggregate))

\* C5: no hash id is posted by two post_social runs, and the rows a run
\* posts are rows of site/current_year.csv whose id the snapshot lacks.
NoDuplicateAlerts ==
    /\ \A i \in 1..Len(posted) : posted[i].hash_id \notin alerted
    /\ \A o \in post_social(aggregate, snapshot) : \A i \in 1..Len(o.posted) :
          /\ o.posted[i] \in Range(read_csv_str(aggregate))
          /\ o.posted[i].hash_id \notin load_previous_hashes(snapshot)

\* the stores that hold a row of hash id h
Holders(h) == {s \in Sources : h \in HashIds(store[s].rows)}

OncePerId(rows) ==
    \A i, j \in 1..Len(rows) : rows[i].hash_id = rows[j].hash_id => i = j

\* C6: site/current_year.csv holds no hash id twice, and a build holds
\* exactly once every hash id that two stores share.
AggregateIdsUnique ==
    /\ OncePerId(aggregate.rows)
    /\ \A f \in build_current_year(store) :
          /\ OncePerId(f.rows)
          /\ \A s \in Sources : \A h \in HashIds(store[s].rows) :
                Cardinality(Holders(h)) >= 2 =>
                    Cardinality({i \in 1..Len(f.rows) : f.rows[i].hash_id = h}) = 1

\* a build has just merged two stores that share a hash id
AggregateIdsUniqueWitness ==
    /\ out.op = "build"
    /\ aggregate \in build_current_year(store)
    /\ \E h \in HashIds(aggregate.rows) : Cardinality(Holders(h)) >= 2

\* C7: no row of site/current_year.csv has an empty notice_date.
AggregateDated ==
    \A i \in 1..Len(aggregate.rows) : aggregate.rows[i].notice_date # ""

(***************************************************************************)
(* Claims about the build alone.                                           *)
(***************************************************************************)
\* a source_url that is the page a collector lists notices from, not a
\* notice document: scrape_fl writes its listing URL into every row
LandingPage(url) == \E yr \in 1..MaxYear : url = FLUrl(yr)

\* C12: no row of site/current_year.csv has a source_url that is a landing
\* page; the build leaves such rows of the stores out.
NoPlaceholderRows ==
    \A i \in 1..Len(aggregate.rows) : ~LandingPage(aggregate.rows[i].source_url)

\* the place of hash id h in a frame that holds it once
Pos(d, h) == CHOOSE k \in 1..Len(d) : d[k].hash_id = h

\* rows is the frame d sorted by notice_date, newest first and the rows
\* without a date last, rows of equal notice_date in the order they have in d
StableSorted(rows, d) ==
    /\ Len(rows) = Len(d) /\ Range(rows) = Range(d)
    /\ \A i \in 1..(Len(rows) - 1) :
          DateKey(rows[i].notice_date) >= DateKey(rows[i + 1].notice_date)
    /\ \A i, j \in 1..Len(rows) :
          i < j /\ rows[i].notice_date = rows[j].notice_date =>
              Pos(d, rows[i].hash_id) < Pos(d, rows[j].hash_id)

\* C14: the file a build has written is the concatenated, de-duplicated
\* frame sorted by notice_date descending, rows of equal notice_date in the
\* order the concatenation had them.
AggregateSortedStable ==
    out.op = "build" =>
        \E merged \in concat_parts(store) :
            StableSorted(aggregate.rows, drop_duplicates_last(merged))

\* the first place of hash id h in the frame m
FirstPos(m, h) ==
    CHOOSE k \in 1..Len(m) : m[k].hash_id = h /\ \A j \in 1..(k - 1) : m[j].hash_id # h

\* C15: of the rows of the concatenated frame that share a hash id, the
\* file a build has written holds the first one.
KeepsFirstOccurrence ==
    out.op = "build" =>
        \E merged \in concat_parts(store) :
            \A i \in 1..Len(aggregate.rows) :
                aggregate.rows[i] = merged[FirstPos(merged, aggregate.rows[i].hash_id)]

(***************************************************************************)
(* post_social.py on its own: one run on a site/current_year.csv of up to  *)
(* MaxNew notices of one day and a snapshot left by earlier runs, then     *)
(* further runs on the same file.                                          *)
(***************************************************************************)
PostRows ==
    { Row("Acme Inc.", "2025-03-01", "2025-04-30", "1200", "Albany", "CA", CAUrl),
      Row("Bolt",      "2025-03-01", "2025-04-30", "150",  "Albany", "CA", CAUrl),
      Row("bolt warn", "2025-03-01", "2025-04-30", "150",  "Albany", "CA", CAUrl),
      Row("Acme Inc.", "2025-03-01", "2025-04-30", "7",    "",       "CA", CAUrl),
      Row("Bolt",      "2025-03-01", "2025-04-30", "7",    "",       "CA", CAUrl) }

\* the ids earlier runs posted and saved
EarlierIds ==
    { {},
      {make_hash_id("Acme Inc.", "2025-03-01", "2025-04-30", "Albany", CAUrl)},
      {make_hash_id("Bolt", "2025-03-01", "2025-04-30", "", CAUrl),
       make_hash_id("Bolt", "2025-03-01", "2025-04-30", "Albany", CAUrl)} }

InitPost ==
    /\ year = 1
    /\ store = [s \in Sources |-> NoFile]
    /\ \E rows \in SeqsUpTo(PostRows, MaxNew) :
          /\ \A i, j \in 1..Len(rows) : rows[i] = rows[j] => i = j
          /\ aggregate = to_csv(rows)
    /\ \E ids \in EarlierIds :
          /\ snapshot \in {save_current_hashes(ids)} \cup
                           (IF ids = {} THEN {[kind |-> "absent", ids |-> {}]} ELSE {})
          /\ alerted = ids
    /\ out = [op |-> "", res |-> "", n |-> 0]
    /\ posted = <<>>
    /\ ident = NoCalls
    /\ rmw = NoRuns

SpecPost == InitPost /\ [][Post]_vars

\* the rows of the file whose hash id the snapshot lacks
NewRows(agg, snap) ==
    LET df == read_csv_str(agg)
    IN {df[i] : i \in {k \in 1..Len(df) : df[k].hash_id \notin load_previous_hashes(snap)}}

\* C16: a post_social run posts at most 3 of the new rows, all of them when
\* they are 3 or fewer, and no new row it leaves out has a larger
\* employee_count than a row it posts.
TopKSelection ==
    [][out'.op = "post" /\ out'.res # "nofile" =>
          LET new == NewRows(aggregate, snapshot)
              sel == Range(posted')
          IN /\ Len(posted') <= TopK
             /\ Cardinality(sel) = Len(posted')
             /\ sel \subseteq new
             /\ (Cardinality(new) <= TopK => sel = new)
             /\ \A r \in new \ sel : \A q \in sel :
                   to_int(r.employee_count) <= to_int(q.employee_count)]_vars

\* the first run on a file of more than 3 new rows has posted 3 of them,
\* among them one of two rows of equal employee_count and a row that comes
\* later in the file than the row left out
TopKSelectionWitness ==
    LET df   == read_csv_str(aggregate)
        new  == {df[i] : i \in {k \in 1..Len(df) : df[k].hash_id \notin alerted}}
        sel  == Range(posted)
    IN /\ out.op = "post" /\ out.res = "posted"
       /\ Len(posted) = TopK /\ sel \subseteq new
       /\ Cardinality(new) > TopK
       /\ \E r \in new \ sel : \E q \in sel :
             to_int(r.employee_count) = to_int(q.employee_count)
       /\ \E r \in new \ sel : \E q \in sel :
             to_int(r.employee_count) < to_int(q.employee_count)
       /\ \E i \in 1..Len(df) : df[i] \in new \ sel
             /\ \E j \in (i + 1)..Len(df) : df[j] \in sel

====
